---- MODULE Spec2Model ----
(***************************************************************************)
(* Binder of the service-binding operator: getListGVK, search,            *)
(* appendEnvFrom, update and Bind, run against a Kubernetes object store   *)
(* that lists by namespace, kind and label selector and that rejects an    *)
(* update carrying a stale resource version.                               *)
(*                                                                         *)
(* Strings the code inspects character by character (the resource kind)    *)
(* are sequences of one-character strings; a Go pointer is a sequence of   *)
(* length 0 (nil) or 1; an unstructured object is a function from field    *)
(* names to values, a missing field being a name outside its DOMAIN.       *)
(***************************************************************************)
EXTENDS Integers, Sequences, FiniteSets, TLC

\* ------------------------------------------------------------------ bounds

\* Number of objects held by the store.
MaxObjects == 2

\* Number of list/update calls the store may fail for transient reasons.
MaxFailures == 1

\* Longest envFrom list given to appendEnvFrom on its own.
MaxEnvLen == 3

\* ------------------------------------------------------------- strings

UpperToLower ==
    [c \in {"A","B","C","D","E","F","G","H","I","J","K","L","M",
            "N","O","P","Q","R","S","T","U","V","W","X","Y","Z"} |->
        CASE c = "A" -> "a" [] c = "B" -> "b" [] c = "C" -> "c" [] c = "D" -> "d"
          [] c = "E" -> "e" [] c = "F" -> "f" [] c = "G" -> "g" [] c = "H" -> "h"
          [] c = "I" -> "i" [] c = "J" -> "j" [] c = "K" -> "k" [] c = "L" -> "l"
          [] c = "M" -> "m" [] c = "N" -> "n" [] c = "O" -> "o" [] c = "P" -> "p"
          [] c = "Q" -> "q" [] c = "R" -> "r" [] c = "S" -> "s" [] c = "T" -> "t"
          [] c = "U" -> "u" [] c = "V" -> "v" [] c = "W" -> "w" [] c = "X" -> "x"
          [] c = "Y" -> "y" [] c = "Z" -> "z"]

\* strings.ToLower on one character: an upper-case letter maps to its
\* lower-case letter, every other character to itself.
LowerChar(c) == IF c \in DOMAIN UpperToLower THEN UpperToLower[c] ELSE c

\* strings.ToLower
ToLower(s) == [i \in 1..Len(s) |-> LowerChar(s[i])]

StrDeployment == <<"d","e","p","l","o","y","m","e","n","t">>

StrDeploymentConfig ==
    <<"d","e","p","l","o","y","m","e","n","t","c","o","n","f","i","g">>

\* ------------------------------------------------------------- errors

\* An error value: what kind of error it is and the values formatted into
\* its message (the resource kind string, the nested path, the object kind).
\* The outcome of a call that never returned because it panicked, and of a
\* binder that was never called, have their own status.
ErrorValue(status, type, resourceKind, path, objKind) ==
    [status |-> status, type |-> type, resourceKind |-> resourceKind,
     path |-> path, objKind |-> objKind]

\* The nil error.
NilError == ErrorValue("nil", "", <<>>, <<>>, "")

\* fmt.Errorf("resource kind '%s' is not supported by this operator", kind)
UnsupportedKindError(kind) == ErrorValue("error", "UnsupportedKind", kind, <<>>, "")

\* fmt.Errorf("unable to find '%#v' in object kind '%s'", nestedPath, kind)
UnsupportedShapeError(path, kind) ==
    ErrorValue("error", "UnsupportedShape", <<>>, path, kind)

\* An error returned by the object store (client.List, client.Update).
StoreError(type) == ErrorValue("error", type, <<>>, <<>>, "")

\* A nil-pointer dereference: the call does not return.
Panic == ErrorValue("panic", "NilPointerDereference", <<>>, <<>>, "")

\* No call has returned yet.
NoResult == ErrorValue("none", "", <<>>, <<>>, "")

\* A store call that failed: the operation, the position in objList of the
\* object it was for (0 for a list) and the error the store answered.
FailedCall(op, n, err) == [op |-> op, n |-> n, err |-> err]

\* No store call has failed.
NoFailedCall == FailedCall("", 0, NilError)

\* ------------------------------------------------------- getListGVK

EmptyGVK == [Group |-> "", Version |-> "", Kind |-> ""]

\* getResourceKind without the lower-casing.
getResourceKind_AsWritten(r) == r.Spec.ApplicationSelector.ResourceKind

getResourceKind(r) == ToLower(r.Spec.ApplicationSelector.ResourceKind)

getListGVK(r) ==
    LET kind == getResourceKind(r) IN
    IF kind = StrDeploymentConfig
    THEN [gvk |-> [Group |-> "apps.openshift.io", Version |-> "v1",
                   Kind |-> "DeploymentConfigList"],
          err |-> NilError]
    ELSE IF kind = StrDeployment
    THEN [gvk |-> [Group |-> "apps", Version |-> "v1", Kind |-> "DeploymentList"],
          err |-> NilError]
    ELSE [gvk |-> EmptyGVK, err |-> UnsupportedKindError(kind)]

\* ------------------------------------------------- typed containers

\* runtime.DefaultUnstructuredConverter.FromUnstructured on one envFrom
\* entry: a reference the entry does not hold is a nil pointer.
EnvFromSourceFromUnstructured(e) ==
    [ConfigMapRef |-> IF "configMapRef" \in DOMAIN e
                      THEN <<[Name |-> e.configMapRef.name]>> ELSE <<>>,
     SecretRef    |-> IF "secretRef" \in DOMAIN e
                      THEN <<[Name |-> e.secretRef.name]>> ELSE <<>>]

\* runtime.DefaultUnstructuredConverter.FromUnstructured(u, &c)
FromUnstructured(u) ==
    [Name    |-> u.name,
     EnvFrom |-> IF "envFrom" \in DOMAIN u
                 THEN [i \in 1..Len(u.envFrom) |->
                          EnvFromSourceFromUnstructured(u.envFrom[i])]
                 ELSE <<>>]

\* ToUnstructured on one envFrom entry: nil references are omitted.
EnvFromSourceToUnstructured(e) ==
    [k \in (IF Len(e.ConfigMapRef) = 0 THEN {} ELSE {"configMapRef"})
           \cup (IF Len(e.SecretRef) = 0 THEN {} ELSE {"secretRef"}) |->
        IF k = "configMapRef" THEN [name |-> e.ConfigMapRef[1].Name]
                              ELSE [name |-> e.SecretRef[1].Name]]

\* runtime.DefaultUnstructuredConverter.ToUnstructured(&c): an empty
\* envFrom list is omitted.
ToUnstructured(c) ==
    IF Len(c.EnvFrom) = 0
    THEN [name |-> c.Name]
    ELSE [name |-> c.Name,
          envFrom |-> [i \in 1..Len(c.EnvFrom) |->
                          EnvFromSourceToUnstructured(c.EnvFrom[i])]]

\* corev1.EnvFromSource{SecretRef: &corev1.SecretEnvSource{Name: secret}}
SecretEnvFrom(secret) == [ConfigMapRef |-> <<>>, SecretRef |-> <<[Name |-> secret]>>]

\* ---------------------------------------------------- appendEnvFrom

\* The scan of appendEnvFrom from position i: "found" when an entry names
\* the secret, "append" when the list ends without one, and "panic" when
\* the scan reads SecretRef.Name through a nil SecretRef.
\* The scan looking at the first entry only.
ScanEnvFrom_FirstOnly(envList, secret, i) ==
    IF Len(envList) = 0 THEN "append"
    ELSE IF Len(envList[1].SecretRef) = 0 THEN "panic"
    ELSE IF envList[1].SecretRef[1].Name = secret THEN "found"
    ELSE "append"

RECURSIVE ScanEnvFrom(_, _, _)
ScanEnvFrom(envList, secret, i) ==
    IF i > Len(envList) THEN "append"
    ELSE IF Len(envList[i].SecretRef) = 0 THEN "panic"
    ELSE IF envList[i].SecretRef[1].Name = secret THEN "found"
    ELSE ScanEnvFrom(envList, secret, i + 1)

\* appendEnvFrom without the scan: the secret is always appended.
appendEnvFrom_AlwaysAppends(envList, secret) ==
    [panic |-> FALSE, list |-> Append(envList, SecretEnvFrom(secret))]

\* appendEnvFrom putting the new entry first.
appendEnvFrom_Prepends(envList, secret) ==
    LET scan == ScanEnvFrom(envList, secret, 1) IN
    IF scan = "panic" THEN [panic |-> TRUE, list |-> <<>>]
    ELSE IF scan = "found" THEN [panic |-> FALSE, list |-> envList]
    ELSE [panic |-> FALSE, list |-> <<SecretEnvFrom(secret)>> \o envList]

appendEnvFrom(envList, secret) ==
    LET scan == ScanEnvFrom(envList, secret, 1) IN
    IF scan = "panic" THEN [panic |-> TRUE, list |-> <<>>]
    ELSE IF scan = "found" THEN [panic |-> FALSE, list |-> envList]
    ELSE [panic |-> FALSE, list |-> Append(envList, SecretEnvFrom(secret))]

\* ------------------------------------------------ unstructured access

\* unstructured.NestedFieldNoCopy / NestedSlice: walk the field names; the
\* value is found when every name on the way is a field of its parent.
\* NestedSlice answering an absent path with an empty slice.
NestedSlice_AbsentIsEmpty(m, fields) == [val |-> <<>>, found |-> TRUE]

RECURSIVE NestedSlice(_, _)
NestedSlice(m, fields) ==
    IF Len(fields) = 0 THEN [val |-> m, found |-> TRUE]
    ELSE IF Head(fields) \in DOMAIN m
    THEN NestedSlice(m[Head(fields)], Tail(fields))
    ELSE [val |-> <<>>, found |-> FALSE]

\* unstructured.SetNestedSlice: set the value at the path, creating the
\* maps missing on the way.
RECURSIVE SetNestedSlice(_, _, _)
SetNestedSlice(m, value, fields) ==
    LET f == Head(fields) IN
    [k \in DOMAIN m \cup {f} |->
        IF k # f THEN m[k]
        ELSE IF Len(fields) = 1 THEN value
        ELSE SetNestedSlice(IF f \in DOMAIN m THEN m[f] ELSE <<>>,
                            value, Tail(fields))]

nestedPath == <<"spec", "template", "spec", "containers">>

\* ------------------------------------------------------ object store

\* The kinds the store serves, with the list kind of each.
ServedKinds ==
    { [Group |-> "apps", Version |-> "v1", Kind |-> "Deployment",
       ListKind |-> "DeploymentList"],
      [Group |-> "apps.openshift.io", Version |-> "v1", Kind |-> "DeploymentConfig",
       ListKind |-> "DeploymentConfigList"] }

\* Whether an object is of the kind the list GVK asks for.
IsOfListGVK(obj, gvk) ==
    \E k \in ServedKinds :
        /\ k.Group = gvk.Group /\ k.Version = gvk.Version /\ k.ListKind = gvk.Kind
        /\ obj.apiGroup = k.Group /\ obj.apiVersion = k.Version /\ obj.kind = k.Kind

\* labels.SelectorFromSet(set).Matches(lbls): every pair of the set is a
\* pair of the labels; the empty set selects everything.
\* A selector that matches when any pair of the set is a pair of the labels.
SelectorMatches_AnyPair(set, lbls) ==
    \E k \in DOMAIN set : k \in DOMAIN lbls /\ lbls[k] = set[k]

SelectorMatches(set, lbls) ==
    \A k \in DOMAIN set : k \in DOMAIN lbls /\ lbls[k] = set[k]

\* Whether client.List with these options returns the object.
ListSelects(obj, opts, gvk) ==
    /\ IsOfListGVK(obj, gvk)
    /\ obj.metadata.namespace = opts.Namespace
    /\ SelectorMatches(opts.LabelSelector, obj.metadata.labels)

\* client.List: the selected objects of st named i..MaxObjects, in name order.
RECURSIVE ListItems(_, _, _, _)
ListItems(st, opts, gvk, i) ==
    IF i > MaxObjects THEN <<>>
    ELSE (IF ListSelects(st[i], opts, gvk) THEN <<st[i]>> ELSE <<>>)
         \o ListItems(st, opts, gvk, i + 1)

\* client.Update on a store that accepts it: the stored object is replaced,
\* and gets a new resource version when its content changed.
StoreAfterUpdate(st, obj) ==
    LET name == obj.metadata.name
        cur  == st[name] IN
    IF obj = cur THEN st
    ELSE [st EXCEPT ![name] =
            [obj EXCEPT !.metadata.resourceVersion = cur.metadata.resourceVersion + 1]]

\* A store that compares no resource version and accepts every update.
IsStale_Never(st, obj) == FALSE

\* Whether the store rejects the update as a conflict: the object carries a
\* resource version other than the stored one.
IsStale(st, obj) ==
    st[obj.metadata.name].metadata.resourceVersion # obj.metadata.resourceVersion

\* Transient failures of a store call.
StoreErrorTypes == {"ServerTimeout"}

\* ----------------------------------------------------------- update

\* The loop of update over the containers of one object: every container
\* is converted, given the secret and converted back; a panic of
\* appendEnvFrom ends it.
\* The loop stopping after the first container.
BindContainers_FirstOnly(containers, secret) ==
    LET bound(i) == appendEnvFrom(FromUnstructured(containers[i]).EnvFrom, secret) IN
    IF Len(containers) > 0 /\ bound(1).panic
    THEN [panic |-> TRUE, containers |-> <<>>]
    ELSE [panic |-> FALSE,
          containers |-> [i \in 1..Len(containers) |->
              IF i > 1 THEN containers[i]
              ELSE ToUnstructured([FromUnstructured(containers[i])
                                      EXCEPT !.EnvFrom = bound(i).list])]]

BindContainers(containers, secret) ==
    LET bound(i) == appendEnvFrom(FromUnstructured(containers[i]).EnvFrom, secret) IN
    IF \E i \in 1..Len(containers) : bound(i).panic
    THEN [panic |-> TRUE, containers |-> <<>>]
    ELSE [panic |-> FALSE,
          containers |-> [i \in 1..Len(containers) |->
              ToUnstructured([FromUnstructured(containers[i])
                                 EXCEPT !.EnvFrom = bound(i).list])]]

\* ------------------------------------------------------------- state

VARIABLES
    store,      \* the object store: object name -> unstructured object
    store0,     \* the store as it was initially (never changes)
    sbr,        \* binder -> its ServiceBindingRequest (never changes)
    pc,         \* binder -> "idle" (not in Bind) or "update" (in update's loop)
    objList,    \* binder -> the items search returned to this Bind call
    idx,        \* binder -> position of update's loop in objList
    result,     \* binder -> what its last Bind call returned
    pre,        \* binder -> the store when its last Bind call began
    listCalls,  \* binder -> client.List calls issued by its last Bind call
    updCalls,   \* binder -> names given to client.Update by its last Bind call
    inspected,  \* binder -> names whose containers its last Bind call read
    failedCall, \* binder -> the store call that failed during its last Bind call
    failures,   \* store calls that failed for transient reasons so far
    fnIn,       \* input of a function applied on its own
    fnOut       \* its outputs, in order of application

vars == <<store, store0, sbr, pc, objList, idx, result, pre, listCalls,
          updCalls, inspected, failedCall, failures, fnIn, fnOut>>

Binders == {1, 2}

\* ------------------------------------------------------------- inputs

KeyConnectsTo == "connects-to"

KeyEnvironment == "environment"

NoLabels == [k \in {} |-> ""]

FullLabels == (KeyConnectsTo :> "database") @@ (KeyEnvironment :> "binder")

OneLabel == (KeyConnectsTo :> "database")

OtherValueLabels == (KeyConnectsTo :> "database") @@ (KeyEnvironment :> "prod")

\* Resource kinds as a request may spell them.
KindDeploymentMixed == <<"D","e","p","l","o","y","m","e","n","t">>

KindDeploymentConfigLower == StrDeploymentConfig

KindPod == <<"p","o","d">>

\* v1alpha1.ServiceBindingRequest
ServiceBindingRequest(ns, name, kind, matchLabels) ==
    [Namespace |-> ns, Name |-> name,
     Spec |-> [ApplicationSelector |->
                  [ResourceKind |-> kind, MatchLabels |-> matchLabels]]]

SecretEntry(name) == [secretRef |-> [name |-> name]]

ConfigMapEntry(name) == [configMapRef |-> [name |-> name]]

Container(name, envFrom) ==
    IF Len(envFrom) = 0 THEN [name |-> name]
    ELSE [name |-> name, envFrom |-> envFrom]

PodTemplate(containers) == [template |-> [spec |-> [containers |-> containers]]]

\* An object spec without a pod template.
NoTemplate == [replicas |-> 1]

\* An object as the store holds it.
Workload(name, ns, group, kind, lbls, spec) ==
    [apiGroup |-> group, apiVersion |-> "v1", kind |-> kind,
     metadata |-> [name |-> name, namespace |-> ns, labels |-> lbls,
                   resourceVersion |-> 1],
     spec |-> spec]

\* Where an object lives: namespace, kind and labels.
Placements ==
    { [ns |-> "binder", group |-> "apps", kind |-> "Deployment", labels |-> FullLabels],
      [ns |-> "binder", group |-> "apps", kind |-> "Deployment", labels |-> OneLabel],
      [ns |-> "binder", group |-> "apps.openshift.io", kind |-> "DeploymentConfig",
       labels |-> FullLabels] }

\* What an object holds at spec.
Shapes ==
    { NoTemplate,
      PodTemplate(<<Container("c1", <<>>)>>),
      PodTemplate(<<Container("c1", <<SecretEntry("sbr-a")>>)>>),
      PodTemplate(<<Container("c1", <<SecretEntry("other")>>), Container("c2", <<>>)>>),
      PodTemplate(<<Container("c1", <<ConfigMapEntry("cfg")>>)>>),
      PodTemplate(<<Container("c1", <<SecretEntry("sbr-a"), SecretEntry("sbr-a")>>)>>),
      PodTemplate(<<Container("c1", <<SecretEntry("sbr-a"), ConfigMapEntry("cfg")>>)>>) }

Stores(placements, shapes) ==
    { [i \in 1..MaxObjects |->
          Workload(i, pl[i].ns, pl[i].group, pl[i].kind, pl[i].labels, sh[i])] :
      pl \in [1..MaxObjects -> placements], sh \in [1..MaxObjects -> shapes] }

Requests(names, kinds, labelSets) ==
    { ServiceBindingRequest("binder", n, k, l) :
      n \in names, k \in kinds, l \in labelSets }

\* A request that selects nothing the store serves.
IdleRequest == ServiceBindingRequest("binder", "sbr-b", KindPod, NoLabels)

InitBinders ==
    /\ pc = [b \in Binders |-> "idle"]
    /\ objList = [b \in Binders |-> <<>>]
    /\ idx = [b \in Binders |-> 0]
    /\ result = [b \in Binders |-> NoResult]
    /\ pre = [b \in Binders |-> store]
    /\ listCalls = [b \in Binders |-> 0]
    /\ updCalls = [b \in Binders |-> <<>>]
    /\ inspected = [b \in Binders |-> <<>>]
    /\ failedCall = [b \in Binders |-> NoFailedCall]
    /\ failures = 0

\* One binder; the store holds any objects.
Init ==
    /\ store \in Stores(Placements, Shapes)
    /\ store0 = store
    /\ \E r \in Requests({"sbr-a"},
                          {KindDeploymentMixed, KindDeploymentConfigLower, KindPod},
                          {FullLabels, NoLabels}) :
           sbr = [b \in Binders |-> IF b = 1 THEN r ELSE IdleRequest]
    /\ InitBinders
    /\ fnIn = <<>>
    /\ fnOut = <<>>

\* --------------------------------------------------------------- Bind

\* Bind returning an error of its own in place of the stage's error.
Return_OwnError(b, outcome) ==
    /\ pc' = [pc EXCEPT ![b] = "idle"]
    /\ result' = [result EXCEPT ![b] =
                     IF outcome.status = "error" THEN StoreError("BindFailed") ELSE outcome]

\* Bind returns what the stage that ended it produced: the binder is idle
\* again and holds the outcome.
Return(b, outcome) ==
    /\ pc' = [pc EXCEPT ![b] = "idle"]
    /\ result' = [result EXCEPT ![b] = outcome]

\* What client.List is asked by search.
ListOptions(r) ==
    [Namespace |-> r.Namespace,
     LabelSelector |-> r.Spec.ApplicationSelector.MatchLabels]

\* Bind is called and runs search: getListGVK, then one client.List. An
\* error of either is what Bind returns; with no item found update's loop
\* does nothing and Bind returns nil.
BindSearch(b) ==
    /\ pc[b] = "idle"
    /\ pre' = [pre EXCEPT ![b] = store]
    /\ updCalls' = [updCalls EXCEPT ![b] = <<>>]
    /\ inspected' = [inspected EXCEPT ![b] = <<>>]
    /\ idx' = [idx EXCEPT ![b] = 1]
    /\ UNCHANGED <<store, store0, sbr, fnIn, fnOut>>
    /\ LET r == getListGVK(sbr[b]) IN
       \/ /\ r.err.status # "nil"
          /\ listCalls' = [listCalls EXCEPT ![b] = 0]
          /\ objList' = [objList EXCEPT ![b] = <<>>]
          /\ failedCall' = [failedCall EXCEPT ![b] = NoFailedCall]
          /\ Return(b, r.err)
          /\ UNCHANGED failures
       \/ /\ r.err.status = "nil"
          /\ failures < MaxFailures
          /\ \E t \in StoreErrorTypes :
                /\ failedCall' = [failedCall EXCEPT ![b] = FailedCall("List", 0, StoreError(t))]
                /\ Return(b, StoreError(t))
          /\ failures' = failures + 1
          /\ listCalls' = [listCalls EXCEPT ![b] = 1]
          /\ objList' = [objList EXCEPT ![b] = <<>>]
       \/ /\ r.err.status = "nil"
          /\ LET items == ListItems(store, ListOptions(sbr[b]), r.gvk, 1) IN
             /\ objList' = [objList EXCEPT ![b] = items]
             /\ listCalls' = [listCalls EXCEPT ![b] = 1]
             /\ failedCall' = [failedCall EXCEPT ![b] = NoFailedCall]
             /\ IF Len(items) = 0
                THEN Return(b, NilError)
                ELSE /\ pc' = [pc EXCEPT ![b] = "update"]
                     /\ result' = [result EXCEPT ![b] = NoResult]
          /\ UNCHANGED failures

\* After an object was updated: the loop goes on, or ends and Bind returns nil.
NextObject(b) ==
    /\ idx' = [idx EXCEPT ![b] = idx[b] + 1]
    /\ IF idx[b] = Len(objList[b])
       THEN Return(b, NilError)
       ELSE UNCHANGED <<pc, result>>

\* The error of client.Update dropped: the loop goes on.
UpdateFailed_GoesOn(b, err) == NextObject(b)

\* client.Update returned an error: update returns it at once.
UpdateFailed(b, err) ==
    /\ Return(b, err)
    /\ UNCHANGED idx

\* One turn of update's loop: read the containers of the next object,
\* give each the secret, write them back and update the object in the store.
BindUpdate(b) ==
    /\ pc[b] = "update"
    /\ UNCHANGED <<store0, sbr, objList, pre, listCalls, fnIn, fnOut>>
    /\ inspected' = [inspected EXCEPT ![b] = Append(@, objList[b][idx[b]].metadata.name)]
    /\ LET obj == objList[b][idx[b]]
           containers == NestedSlice(obj, nestedPath)
           bound == BindContainers(containers.val, sbr[b].Name)
           updated == SetNestedSlice(obj, bound.containers, nestedPath)
           called == [updCalls EXCEPT ![b] = Append(@, obj.metadata.name)]
       IN
       \/ /\ ~containers.found
          /\ Return(b, UnsupportedShapeError(nestedPath, obj.kind))
          /\ UNCHANGED <<store, idx, updCalls, failures, failedCall>>
       \/ /\ containers.found
          /\ ~bound.panic
          /\ failures < MaxFailures
          /\ \E t \in StoreErrorTypes :
                /\ failedCall' = [failedCall EXCEPT ![b] =
                                     FailedCall("Update", idx[b], StoreError(t))]
                /\ UpdateFailed(b, StoreError(t))
          /\ failures' = failures + 1
          /\ updCalls' = called
          /\ UNCHANGED store
       \/ /\ containers.found
          /\ ~bound.panic
          /\ IsStale(store, updated)
          /\ failedCall' = [failedCall EXCEPT ![b] =
                               FailedCall("Update", idx[b], StoreError("Conflict"))]
          /\ UpdateFailed(b, StoreError("Conflict"))
          /\ updCalls' = called
          /\ UNCHANGED <<store, failures>>
       \/ /\ containers.found
          /\ ~bound.panic
          /\ ~IsStale(store, updated)
          /\ store' = StoreAfterUpdate(store, updated)
          /\ updCalls' = called
          /\ NextObject(b)
          /\ UNCHANGED <<failures, failedCall>>
       \/ /\ containers.found
          /\ bound.panic
          /\ Return(b, Panic)
          /\ UNCHANGED <<store, idx, updCalls, failures, failedCall>>

\* One binder runs; the other is never called.
Next == BindSearch(1) \/ BindUpdate(1)

Spec == Init /\ [][Next]_vars

\* ------------------------------------------------- Bind called again

\* update from position i of the list on, no store call failing: the store
\* it leaves and what it returns.
RECURSIVE UpdateAll(_, _, _, _)
UpdateAll(st, items, i, secret) ==
    IF i > Len(items) THEN [store |-> st, result |-> NilError]
    ELSE LET obj == items[i]
             containers == NestedSlice(obj, nestedPath)
             bound == BindContainers(containers.val, secret) IN
         IF ~containers.found
         THEN [store |-> st, result |-> UnsupportedShapeError(nestedPath, obj.kind)]
         ELSE IF bound.panic THEN [store |-> st, result |-> Panic]
         ELSE UpdateAll(StoreAfterUpdate(st, SetNestedSlice(obj, bound.containers, nestedPath)),
                        items, i + 1, secret)

\* One Bind call on store st, no store call failing.
BindOnce(st, r) ==
    LET g == getListGVK(r) IN
    IF g.err.status # "nil" THEN [store |-> st, result |-> g.err]
    ELSE UpdateAll(st, ListItems(st, ListOptions(r), g.gvk, 1), 1, r.Name)

\* One binder; the store holds objects that the request selects or that
\* are of another kind, with or without containers, holding the secret or not.
InitLive ==
    /\ store \in Stores({ pl \in Placements : pl.kind = "Deployment" /\ pl.labels = FullLabels },
                         { NoTemplate,
                           PodTemplate(<<Container("c1", <<>>)>>),
                           PodTemplate(<<Container("c1", <<SecretEntry("other")>>),
                                         Container("c2", <<>>)>>),
                           PodTemplate(<<Container("c1", <<ConfigMapEntry("cfg")>>)>>),
                           PodTemplate(<<Container("c1", <<SecretEntry("sbr-a"),
                                                           SecretEntry("sbr-a")>>)>>) })
    /\ store0 = store
    /\ \E r \in Requests({"sbr-a"}, {KindDeploymentMixed, KindDeploymentConfigLower},
                          {FullLabels}) :
           sbr = [b \in Binders |-> IF b = 1 THEN r ELSE IdleRequest]
    /\ InitBinders
    /\ fnIn = <<>>
    /\ fnOut = <<>>

\* The binder is called again whenever its call has returned, and a call
\* under way goes on.
SpecLive == InitLive /\ [][Next]_vars /\ WF_vars(Next)

\* ------------------------------------------------------- two binders

\* Two binders, for requests of the same or of different names, that
\* select overlapping objects of one store.
InitConc ==
    /\ store \in Stores(Placements, Shapes)
    /\ store0 = store
    /\ \E r2 \in Requests({"sbr-a", "sbr-b"}, {KindDeploymentMixed}, {OneLabel}) :
           sbr = [b \in Binders |->
                    IF b = 1
                    THEN ServiceBindingRequest("binder", "sbr-a", KindDeploymentMixed, FullLabels)
                    ELSE r2]
    /\ InitBinders
    /\ fnIn = <<>>
    /\ fnOut = <<>>

\* Either binder takes a step of its Bind call.
NextConc == \E b \in Binders : BindSearch(b) \/ BindUpdate(b)

SpecConc == InitConc /\ [][NextConc]_vars

\* ------------------------------------------- search over varied stores

ExtraLabels == FullLabels @@ ("tier" :> "web")

\* Every namespace, kind and label set an object may have.
SearchPlacements ==
    { [ns |-> n, group |-> k.Group, kind |-> k.Kind, labels |-> l] :
      n \in {"binder", "other"}, k \in ServedKinds,
      l \in {NoLabels, OneLabel, FullLabels, OtherValueLabels, ExtraLabels} }

\* One binder; the store holds objects of any namespace, kind and labels.
InitSearch ==
    /\ store \in Stores(SearchPlacements, {PodTemplate(<<Container("c1", <<>>)>>)})
    /\ store0 = store
    /\ \E r \in Requests({"sbr-a"}, {KindDeploymentMixed, KindDeploymentConfigLower},
                          {NoLabels, OneLabel, FullLabels}) :
           sbr = [b \in Binders |-> IF b = 1 THEN r ELSE IdleRequest]
    /\ InitBinders
    /\ fnIn = <<>>
    /\ fnOut = <<>>

SpecSearch == InitSearch /\ [][Next]_vars

\* ------------------------------------- appendEnvFrom applied on its own

\* The envFrom entries a container may hold, as appendEnvFrom gets them.
EnvEntries ==
    { SecretEnvFrom("sbr-a"), SecretEnvFrom("other"),
      [ConfigMapRef |-> <<[Name |-> "cfg"]>>, SecretRef |-> <<>>] }

EnvLists == UNION { [1..n -> EnvEntries] : n \in 0..MaxEnvLen }

\* A store nobody binds.
QuietStore ==
    [i \in 1..MaxObjects |-> Workload(i, "binder", "apps", "Deployment", NoLabels, NoTemplate)]

InitQuiet ==
    /\ store = QuietStore
    /\ store0 = store
    /\ sbr = [b \in Binders |-> IdleRequest]
    /\ InitBinders
    /\ fnOut = <<>>

InitAppend ==
    /\ InitQuiet
    /\ fnIn \in { [envList |-> l, secret |-> s] : l \in EnvLists, s \in {"sbr-a", "sbr-b"} }

\* appendEnvFrom is called with the list the call before returned (the
\* input list at first) and the same secret; no call follows a panic.
ApplyAppendEnvFrom ==
    /\ Len(fnOut) < 2
    /\ Len(fnOut) > 0 => ~fnOut[Len(fnOut)].panic
    /\ fnOut' = Append(fnOut,
                  appendEnvFrom(IF Len(fnOut) = 0 THEN fnIn.envList
                                ELSE fnOut[Len(fnOut)].list,
                                fnIn.secret))
    /\ UNCHANGED <<store, store0, sbr, pc, objList, idx, result, pre, listCalls,
                   updCalls, inspected, failedCall, failures, fnIn>>

SpecAppend == InitAppend /\ [][ApplyAppendEnvFrom]_vars

\* ---------------------------------------- getListGVK applied on its own

\* Every spelling of the word in upper and lower case.
RECURSIVE Casings(_)
Casings(word) ==
    IF Len(word) = 0 THEN { <<>> }
    ELSE { <<c>> \o rest :
           c \in { d \in DOMAIN UpperToLower \cup {Head(word)} : LowerChar(d) = Head(word) },
           rest \in Casings(Tail(word)) }

Prefixes(word) == { SubSeq(word, 1, n) : n \in 0..Len(word) }

\* Resource kinds a request may hold: the supported words in every casing,
\* their prefixes, their plurals and other words.
KindInputs ==
    Casings(StrDeployment) \cup Casings(StrDeploymentConfig)
    \cup Prefixes(StrDeploymentConfig)
    \cup { StrDeployment \o <<"s">>, StrDeploymentConfig \o <<"s">>,
           <<"D","e","p","l","o","y","m","e","n","t","s">>,
           <<" ">> \o StrDeployment, StrDeployment \o <<" ">>,
           <<"d","e","p","l","o","y","m","e","n","t","-","c","o","n","f","i","g">>,
           KindPod, <<"s","t","a","t","e","f","u","l","s","e","t">> }

InitKind ==
    /\ InitQuiet
    /\ fnIn \in KindInputs

ApplyGetListGVK ==
    /\ Len(fnOut) = 0
    /\ fnOut' = <<getListGVK(ServiceBindingRequest("binder", "sbr-a", fnIn, NoLabels))>>
    /\ UNCHANGED <<store, store0, sbr, pc, objList, idx, result, pre, listCalls,
                   updCalls, inspected, failedCall, failures, fnIn>>

SpecKind == InitKind /\ [][ApplyGetListGVK]_vars

\* ------------------------------------------ vocabulary of the properties

\* The binder's last Bind call has returned (or panicked).
Returned(b) == pc[b] = "idle" /\ result[b].status # "none"

\* The binder's last Bind call returned nil.
Succeeded(b) == pc[b] = "idle" /\ result[b].status = "nil"

LowerLetters ==
    <<"a","b","c","d","e","f","g","h","i","j","k","l","m",
      "n","o","p","q","r","s","t","u","v","w","x","y","z">>

UpperLetters ==
    <<"A","B","C","D","E","F","G","H","I","J","K","L","M",
      "N","O","P","Q","R","S","T","U","V","W","X","Y","Z">>

\* Two characters that are the same letter in any case, or the same character.
SameLetter(c, d) ==
    c = d \/ \E i \in 1..Len(LowerLetters) : {c, d} = {LowerLetters[i], UpperLetters[i]}

\* Two strings equal when case is ignored.
EqualFold(s, t) ==
    Len(s) = Len(t) /\ \A i \in 1..Len(s) : SameLetter(s[i], t[i])

\* The kind of object a request asks for, "" when the operator supports none.
WantedKind(r) ==
    LET k == r.Spec.ApplicationSelector.ResourceKind IN
    IF EqualFold(k, StrDeployment) THEN "Deployment"
    ELSE IF EqualFold(k, StrDeploymentConfig) THEN "DeploymentConfig"
    ELSE ""

\* The key/value pairs of a label map.
Pairs(f) == { <<k, f[k]>> : k \in DOMAIN f }

\* The object is one the request selects: its namespace, the kind it asks
\* for, and every pair of matchLabels among the object's labels.
Selected(obj, r) ==
    /\ obj.metadata.namespace = r.Namespace
    /\ obj.kind = WantedKind(r)
    /\ Pairs(r.Spec.ApplicationSelector.MatchLabels) \subseteq Pairs(obj.metadata.labels)

SelectedNames(st, r) == { n \in 1..MaxObjects : Selected(st[n], r) }

\* Whether the object holds spec.template.spec.containers.
HasContainers(obj) ==
    /\ "spec" \in DOMAIN obj
    /\ "template" \in DOMAIN obj.spec
    /\ "spec" \in DOMAIN obj.spec.template
    /\ "containers" \in DOMAIN obj.spec.template.spec

ContainersOf(obj) ==
    IF HasContainers(obj) THEN obj.spec.template.spec.containers ELSE <<>>

EnvFromOf(c) == IF "envFrom" \in DOMAIN c THEN c.envFrom ELSE <<>>

\* Whether an envFrom entry is a reference to the secret.
NamesSecret(e, s) == "secretRef" \in DOMAIN e /\ e.secretRef.name = s

\* How many envFrom entries of the container name the secret.
SecretCount(c, s) ==
    Cardinality({ i \in 1..Len(EnvFromOf(c)) : NamesSecret(EnvFromOf(c)[i], s) })

\* ------------------------------------------------------------ claims

\* C1: after Bind returns nil, every container of every selected workload
\* holds in the store exactly one envFrom entry naming the request's secret,
\* provided that container held at most one before the call; with no
\* workload selected Bind returns nil, calls no update and changes nothing.
C1_BindAddsSecretOnce ==
    LET s == sbr[1].Name
        sel == SelectedNames(pre[1], sbr[1]) IN
    /\ Succeeded(1) =>
          \A n \in sel :
             /\ HasContainers(store[n])
             /\ Len(ContainersOf(store[n])) = Len(ContainersOf(pre[1][n]))
             /\ \A i \in 1..Len(ContainersOf(store[n])) :
                   SecretCount(ContainersOf(pre[1][n])[i], s) <= 1
                      => SecretCount(ContainersOf(store[n])[i], s) = 1
    /\ (Returned(1) /\ sel = {} /\ WantedKind(sbr[1]) # "" /\ failedCall[1].op # "List")
          => /\ Succeeded(1)
             /\ updCalls[1] = <<>>
             /\ store = pre[1]

\* C1 witness: Bind returned nil after updating two selected workloads, one
\* of them with a container that did not name the secret before.
C1_Witness ==
    /\ Succeeded(1)
    /\ Cardinality(SelectedNames(pre[1], sbr[1])) = 2
    /\ \E n \in SelectedNames(pre[1], sbr[1]) :
          \E i \in 1..Len(ContainersOf(store[n])) :
             /\ SecretCount(ContainersOf(pre[1][n])[i], sbr[1].Name) = 0
             /\ SecretCount(ContainersOf(store[n])[i], sbr[1].Name) = 1

\* C2: appendEnvFrom is idempotent: called again with the same secret on
\* the list it returned, it returns that list, of the same length and content.
C2_AppendIdempotent ==
    Len(fnOut) = 2 =>
       /\ ~fnOut[2].panic
       /\ Len(fnOut[2].list) = Len(fnOut[1].list)
       /\ fnOut[2].list = fnOut[1].list

\* C2 witness: the first call appended the secret to a list that held
\* other entries, and the second call has returned.
C2_Witness ==
    /\ Len(fnOut) = 2
    /\ Len(fnIn.envList) >= 1
    /\ Len(fnOut[1].list) = Len(fnIn.envList) + 1

\* Whether a typed envFrom entry is a reference to the secret.
RefersTo(e, s) == Len(e.SecretRef) = 1 /\ e.SecretRef[1].Name = s

\* C3: the list appendEnvFrom returns starts with the list it was given,
\* entry by entry; it is that list when an entry already names the secret,
\* and otherwise that list followed by one secret reference naming it.
\* It returns for every list that holds secret references only.
C3_AppendKeepsOrder ==
    Len(fnOut) >= 1 =>
       LET L == fnIn.envList
           R == fnOut[1].list
           s == fnIn.secret IN
       /\ fnOut[1].panic => \E i \in 1..Len(L) : Len(L[i].SecretRef) = 0
       /\ ~fnOut[1].panic =>
             /\ Len(R) >= Len(L)
             /\ \A i \in 1..Len(L) : R[i] = L[i]
             /\ IF \E i \in 1..Len(L) : RefersTo(L[i], s)
                THEN R = L
                ELSE /\ Len(R) = Len(L) + 1
                     /\ RefersTo(R[Len(R)], s)
                     /\ Len(R[Len(R)].ConfigMapRef) = 0

\* C3 witness: a list of two or more entries, none naming the secret, was
\* returned with the secret's entry after them.
C3_Witness ==
    /\ Len(fnOut) >= 1
    /\ ~fnOut[1].panic
    /\ Len(fnIn.envList) >= 2
    /\ Len(fnOut[1].list) = Len(fnIn.envList) + 1
    /\ RefersTo(fnOut[1].list[Len(fnOut[1].list)], fnIn.secret)

\* C5: getListGVK compares the resource kind ignoring case with a closed
\* table: "deployment" gives apps/v1 DeploymentList, "deploymentconfig"
\* gives apps.openshift.io/v1 DeploymentConfigList, and any other string
\* gives an unsupported-kind error with no descriptor.
C5_ListKindTable ==
    Len(fnOut) = 1 =>
       LET out == fnOut[1] IN
       IF EqualFold(fnIn, StrDeployment)
       THEN /\ out.err = NilError
            /\ out.gvk = [Group |-> "apps", Version |-> "v1", Kind |-> "DeploymentList"]
       ELSE IF EqualFold(fnIn, StrDeploymentConfig)
       THEN /\ out.err = NilError
            /\ out.gvk = [Group |-> "apps.openshift.io", Version |-> "v1",
                          Kind |-> "DeploymentConfigList"]
       ELSE /\ out.err.status = "error"
            /\ out.err.type = "UnsupportedKind"
            /\ out.gvk = EmptyGVK

\* C5 witness: a spelling of "deploymentconfig" with upper-case letters
\* was resolved to DeploymentConfigList.
C5_Witness ==
    /\ Len(fnOut) = 1
    /\ fnIn = <<"D","e","p","l","o","y","m","e","n","t","C","o","n","f","i","g">>
    /\ fnOut[1].err = NilError
    /\ fnOut[1].gvk.Kind = "DeploymentConfigList"

\* The binder's last Bind call got a list from search.
SearchReturned(b) ==
    /\ listCalls[b] = 1
    /\ failedCall[b].op # "List"

\* C6: search returns exactly the objects of the kind asked for, in the
\* request's namespace, whose labels hold every pair of matchLabels: each
\* such object once, and no object of another namespace or kind or lacking
\* a pair; with empty matchLabels, every object of the kind in the namespace.
C6_SearchExact ==
    SearchReturned(1) =>
       LET items == objList[1]
           r == sbr[1] IN
       /\ { items[i] : i \in 1..Len(items) }
             = { pre[1][n] : n \in SelectedNames(pre[1], r) }
       /\ Len(items) = Cardinality(SelectedNames(pre[1], r))
       /\ DOMAIN r.Spec.ApplicationSelector.MatchLabels = {} =>
             { items[i].metadata.name : i \in 1..Len(items) }
               = { n \in 1..MaxObjects :
                     /\ pre[1][n].kind = WantedKind(r)
                     /\ pre[1][n].metadata.namespace = r.Namespace }

\* C6 witness: search with two pairs in matchLabels returned one object
\* and left out another of the same kind and namespace that lacks a pair.
C6_Witness ==
    /\ SearchReturned(1)
    /\ Len(objList[1]) = 1
    /\ Cardinality(DOMAIN sbr[1].Spec.ApplicationSelector.MatchLabels) = 2
    /\ \E n \in 1..MaxObjects :
          /\ n # objList[1][1].metadata.name
          /\ pre[1][n].kind = objList[1][1].kind
          /\ pre[1][n].metadata.namespace = sbr[1].Namespace
          /\ DOMAIN pre[1][n].metadata.labels # {}

\* The names of the objects search returned, in order.
ItemNames(b) == [i \in 1..Len(objList[b]) |-> objList[b][i].metadata.name]

Range(seq) == { seq[i] : i \in 1..Len(seq) }

\* Positions in objList of the objects lacking spec.template.spec.containers.
Shapeless(b) == { i \in 1..Len(objList[b]) : ~HasContainers(objList[b][i]) }

\* C7 as stated: whenever Bind has returned and search had returned a
\* workload lacking spec.template.spec.containers, Bind failed with the
\* unsupported-shape error, issued no update for that workload and left it
\* as it was.
C7_Original ==
    (Returned(1) /\ result[1].status # "panic" /\ SearchReturned(1)) =>
       \A i \in Shapeless(1) :
          /\ result[1].type = "UnsupportedShape"
          /\ ItemNames(1)[i] \notin Range(updCalls[1])
          /\ store[ItemNames(1)[i]] = pre[1][ItemNames(1)[i]]

\* C7 amended: a selected workload lacking spec.template.spec.containers is
\* never updated nor changed and Bind never returns nil past it; when
\* update's loop reaches it (no earlier workload ended the call) Bind fails
\* with the unsupported-shape error for it, and no later workload is read
\* or updated.
C7_MissingPathFails ==
    (Returned(1) /\ SearchReturned(1)) =>
       \A i \in Shapeless(1) :
          LET names == ItemNames(1) IN
          /\ ~Succeeded(1)
          /\ names[i] \notin Range(updCalls[1])
          /\ store[names[i]] = pre[1][names[i]]
          /\ Len(inspected[1]) <= i
          /\ Len(inspected[1]) = i =>
                /\ inspected[1] = SubSeq(names, 1, i)
                /\ result[1] = UnsupportedShapeError(nestedPath, objList[1][i].kind)
          /\ \A j \in (i + 1)..Len(names) :
                /\ names[j] \notin Range(inspected[1]) \cup Range(updCalls[1])
                /\ store[names[j]] = pre[1][names[j]]
          /\ (\A j \in 1..(i - 1) :
                 /\ names[j] \in Range(updCalls[1])
                 /\ failedCall[1].n # j)
               => Len(inspected[1]) = i

\* C7 witness: Bind failed with the unsupported-shape error at the first of
\* two selected workloads, the second of which holds containers.
C7_Witness ==
    /\ Returned(1)
    /\ Len(objList[1]) = 2
    /\ Shapeless(1) = {1}
    /\ result[1].type = "UnsupportedShape"
    /\ store = pre[1]

\* C8: when client.Update fails for the k-th object of the list, update
\* returns that error at once: the objects before it hold the secret in
\* every container (nothing is rolled back), and the k-th and later objects
\* are in the store as they were when Bind was called.
C8_UpdateErrorNoRollback ==
    LET names == ItemNames(1)
        k == failedCall[1].n IN
    (pc[1] = "idle" /\ failedCall[1].op = "Update") =>
       /\ result[1] = failedCall[1].err
       /\ result[1].status = "error"
       /\ updCalls[1] = SubSeq(names, 1, k)
       /\ inspected[1] = SubSeq(names, 1, k)
       /\ \A i \in 1..(k - 1) :
             /\ Len(ContainersOf(store[names[i]])) = Len(ContainersOf(pre[1][names[i]]))
             /\ \A c \in 1..Len(ContainersOf(store[names[i]])) :
                   SecretCount(ContainersOf(store[names[i]])[c], sbr[1].Name) >= 1
       /\ \A i \in k..Len(names) : store[names[i]] = pre[1][names[i]]

\* C8 witness: the update of the second object failed after the first
\* object was given the secret, which it did not hold before.
C8_Witness ==
    /\ pc[1] = "idle"
    /\ failedCall[1].op = "Update"
    /\ failedCall[1].n = 2
    /\ store[ItemNames(1)[1]] # pre[1][ItemNames(1)[1]]
    /\ result[1].status = "error"

\* C10: an error of any stage ends Bind with that error. With an
\* unsupported kind no list and no update is issued; with a failed list
\* no object is read or updated; and at the first object that fails, no
\* later object is read or updated.
C10_ErrorsShortCircuit ==
    LET names == ItemNames(1)
        k == Len(inspected[1]) IN
    Returned(1) =>
       /\ WantedKind(sbr[1]) = "" =>
             /\ result[1].status = "error"
             /\ result[1].type = "UnsupportedKind"
             /\ EqualFold(result[1].resourceKind, sbr[1].Spec.ApplicationSelector.ResourceKind)
             /\ listCalls[1] = 0
             /\ updCalls[1] = <<>> /\ inspected[1] = <<>>
             /\ store = pre[1]
       /\ failedCall[1].op = "List" =>
             /\ result[1] = failedCall[1].err
             /\ result[1].status = "error"
             /\ listCalls[1] = 1
             /\ updCalls[1] = <<>> /\ inspected[1] = <<>>
             /\ store = pre[1]
       /\ (SearchReturned(1) /\ ~Succeeded(1)) =>
             /\ k >= 1
             /\ inspected[1] = SubSeq(names, 1, k)
             /\ updCalls[1] \in {SubSeq(names, 1, k - 1), SubSeq(names, 1, k)}
             /\ \A j \in (k + 1)..Len(names) : store[names[j]] = pre[1][names[j]]
             /\ failedCall[1].op = "Update" =>
                   /\ failedCall[1].n = k
                   /\ result[1] = failedCall[1].err
             /\ (failedCall[1].op # "Update" /\ result[1].status = "error") =>
                   /\ ~HasContainers(objList[1][k])
                   /\ result[1] = UnsupportedShapeError(nestedPath, objList[1][k].kind)
                   /\ updCalls[1] = SubSeq(names, 1, k - 1)
       /\ Succeeded(1) => failedCall[1].op = "" /\ WantedKind(sbr[1]) # ""

\* C10 witness: the list call failed and Bind returned the store's error
\* although the store held objects the request selects.
C10_Witness ==
    /\ Returned(1)
    /\ failedCall[1].op = "List"
    /\ result[1] = failedCall[1].err
    /\ SelectedNames(store, sbr[1]) # {}
    /\ updCalls[1] = <<>>

\* Every container of every object holds at most one envFrom entry per
\* secret name.
UniqueSecretNames(st) ==
    \A n \in 1..MaxObjects :
       \A c \in 1..Len(ContainersOf(st[n])) :
          LET env == EnvFromOf(ContainersOf(st[n])[c]) IN
          \A i, j \in 1..Len(env) :
             ("secretRef" \in DOMAIN env[i] /\ "secretRef" \in DOMAIN env[j]
                /\ env[i].secretRef.name = env[j].secretRef.name) => i = j

\* C4: if every container of the store held at most one envFrom entry per
\* secret name initially, it does after any Bind calls of any binders,
\* whether they returned nil, failed or are under way.
C4_OneEntryPerSecret == UniqueSecretNames(store0) => UniqueSecretNames(store)

\* C4 witness: both binders, for different secrets, have returned nil, one
\* after a call of its own that failed, and a container that held none of
\* the two secrets initially holds each of them once.
C4_Witness ==
    /\ UniqueSecretNames(store0)
    /\ Succeeded(1) /\ Succeeded(2)
    /\ sbr[1].Name # sbr[2].Name
    /\ failures > 0
    /\ \E n \in 1..MaxObjects :
          \E c \in 1..Len(ContainersOf(store[n])) :
             /\ SecretCount(ContainersOf(store0[n])[c], sbr[1].Name) = 0
             /\ SecretCount(ContainersOf(store0[n])[c], sbr[2].Name) = 0
             /\ SecretCount(ContainersOf(store[n])[c], sbr[1].Name) = 1
             /\ SecretCount(ContainersOf(store[n])[c], sbr[2].Name) = 1

\* Every container of every selected object names the secret exactly once.
AllBoundOnce(st, r) ==
    \A n \in SelectedNames(st, r) :
       /\ HasContainers(st[n])
       /\ \A c \in 1..Len(ContainersOf(st[n])) :
             SecretCount(ContainersOf(st[n])[c], r.Name) = 1

\* C9 as stated: Bind being called again after every failure and the store
\* failing a bounded number of calls, a Bind call eventually returns nil
\* with the store as one Bind without failures would have left the initial
\* store, every selected container naming the secret exactly once. (Read
\* in the claim's favour: initial stores in which a container names a secret
\* twice, and runs in which a call panics, are left aside.)
C9_Original ==
    <>(\/ /\ Succeeded(1)
          /\ store = BindOnce(store0, sbr[1]).store
          /\ AllBoundOnce(store, sbr[1])
       \/ result[1].status = "panic"
       \/ ~UniqueSecretNames(store0))

\* The store is as one Bind without failures would have left the initial
\* store, and the binder, when not in a call, holds what that Bind would
\* have returned.
Converged ==
    /\ store = BindOnce(store0, sbr[1]).store
    /\ pc[1] = "idle" => result[1] = BindOnce(store0, sbr[1]).result

\* C9 amended: Bind being called again after every return and the store
\* failing a bounded number of calls, the calls end up returning what one
\* Bind without failures would have returned on the initial store, with
\* the store as that Bind would have left it, for good. That outcome is
\* nil only when such a Bind returns nil, and then every selected
\* container that named the secret at most once initially names it once.
C9_RetryConverges ==
    /\ <>[]Converged
    /\ [](Succeeded(1) =>
            /\ BindOnce(store0, sbr[1]).result = NilError
            /\ store = BindOnce(store0, sbr[1]).store
            /\ \A n \in SelectedNames(store0, sbr[1]) :
                  \A c \in 1..Len(ContainersOf(store[n])) :
                     SecretCount(ContainersOf(store0[n])[c], sbr[1].Name) <= 1
                        => SecretCount(ContainersOf(store[n])[c], sbr[1].Name) = 1)

\* C9 witness: Bind returned nil in a call that began on a store an earlier,
\* failed call had changed in part, and that completed it.
C9_Witness ==
    /\ Succeeded(1)
    /\ failures > 0
    /\ pre[1] # store0
    /\ pre[1] # store
    /\ store = BindOnce(store0, sbr[1]).store
    /\ AllBoundOnce(store, sbr[1])

\* ===================================================================
\* OLM: the ClusterServiceVersion (CSV) objects of a namespace and the
\* CRD descriptions they own (olm.go).
\* ===================================================================

\* ------------------------------------------------------------------ bounds

\* Number of CSV objects held by the store.
MaxCSVs == 2

\* Longest list at spec.customresourcedefinitions.owned of a CSV.
MaxOwned == 2

\* ----------------------------------------------------- library functions

\* strings.EqualFold: equality under case folding.
StringsEqualFold(s, t) == ToLower(s) = ToLower(t)

\* schema.ParseGroupResource: what precedes the first "." is the resource,
\* what follows it the group; no "." leaves the group empty.
ParseGroupResource(gr) ==
    LET dots == { i \in 1..Len(gr) : gr[i] = "." } IN
    IF dots = {} THEN [Group |-> <<>>, Resource |-> gr]
    ELSE LET i == CHOOSE d \in dots : \A e \in dots : d <= e IN
         [Group |-> SubSeq(gr, i + 1, Len(gr)), Resource |-> SubSeq(gr, 1, i - 1)]

\* schema.ParseResourceArg: the second value it returns (the first, a
\* GroupVersionResource pointer, is dropped by the caller).
ParseResourceArg(arg) == ParseGroupResource(arg)

\* schema.GroupVersionKind
GroupVersionKind(group, version, kind) ==
    [Group |-> group, Version |-> version, Kind |-> kind]

\* runtime.DefaultUnstructuredConverter.FromUnstructured into an
\* olmv1alpha1.CRDDescription: each field is read from the key of its json
\* tag, a missing key leaves the empty string, other keys are ignored.
CRDDescriptionFromUnstructured(u) ==
    [Name        |-> IF "name" \in DOMAIN u THEN u.name ELSE <<>>,
     Version     |-> IF "version" \in DOMAIN u THEN u.version ELSE <<>>,
     Kind        |-> IF "kind" \in DOMAIN u THEN u.kind ELSE <<>>,
     DisplayName |-> IF "displayName" \in DOMAIN u THEN u.displayName ELSE ""]

\* ------------------------------------------------------------ listCSVs

\* resourceClient.List in the namespace: the CSVs of the namespace in
\* name order, or the store's error.
listCSVs(csvs, ns, fail) ==
    LET InNamespace(csv) == csv.metadata.namespace = ns IN
    IF fail THEN [items |-> <<>>, err |-> StoreError("ServerTimeout")]
    ELSE [items |-> SelectSeq(csvs, InNamespace), err |-> NilError]

\* ----------------------------------------------------- extractOwnedCRDs

ownedPath == <<"spec", "customresourcedefinitions", "owned">>

\* A CSV without the owned path is an error.
OwnedOf_MissingIsError(csv) ==
    LET owned == NestedSlice(csv, ownedPath) IN
    IF owned.found THEN [crds |-> owned.val, err |-> NilError]
    ELSE [crds |-> <<>>, err |-> UnsupportedShapeError(ownedPath, "ClusterServiceVersion")]

\* One pass of the loop of extractOwnedCRDs: the descriptions the CSV owns,
\* none when the path is absent.
OwnedOf(csv) ==
    LET owned == NestedSlice(csv, ownedPath) IN
    IF owned.found THEN [crds |-> owned.val, err |-> NilError]
    ELSE [crds |-> <<>>, err |-> NilError]

RECURSIVE extractOwnedCRDsFrom(_, _, _)
extractOwnedCRDsFrom(csvs, i, crds) ==
    IF i > Len(csvs) THEN [crds |-> crds, err |-> NilError]
    ELSE LET owned == OwnedOf(csvs[i]) IN
         IF owned.err # NilError THEN [crds |-> <<>>, err |-> owned.err]
         ELSE extractOwnedCRDsFrom(csvs, i + 1, crds \o owned.crds)

extractOwnedCRDs(csvs) == extractOwnedCRDsFrom(csvs, 1, <<>>)

\* ------------------------------------------------------ ListCSVOwnedCRDs

ListCSVOwnedCRDs(csvs, ns, fail) ==
    LET listed == listCSVs(csvs, ns, fail) IN
    IF listed.err # NilError THEN [crds |-> <<>>, err |-> listed.err]
    ELSE extractOwnedCRDs(listed.items)

\* ---------------------------------------------------- loopCRDDescritions

\* Each unstructured object converted to a CRDDescription, in order; fn is
\* applied to each by the callers below.
loopCRDDescritions(ownedCRDs) ==
    [i \in 1..Len(ownedCRDs) |-> CRDDescriptionFromUnstructured(ownedCRDs[i])]

\* -------------------------------------------------------- SelectCRDByGVK

\* The version is compared even when the description declares none.
crdMatches_VersionAlways(crd, gvk) ==
    /\ StringsEqualFold(ToLower(crd.Kind), ToLower(gvk.Kind))
    /\ ToLower(gvk.Version) = ToLower(crd.Version)

\* The function given to loopCRDDescritions keeps the description: neither
\* of its two returns is taken.
crdMatches(crd, gvk) ==
    /\ StringsEqualFold(ToLower(crd.Kind), ToLower(gvk.Kind))
    /\ ~(crd.Version # <<>> /\ ToLower(gvk.Version) # ToLower(crd.Version))

\* The last of the descriptions kept.
PickCRD_Last(crdDescriptions) ==
    IF Len(crdDescriptions) = 0 THEN <<>>
    ELSE <<crdDescriptions[Len(crdDescriptions)]>>

\* nil when no description was kept, else the first one kept.
PickCRD(crdDescriptions) ==
    IF Len(crdDescriptions) = 0 THEN <<>>
    ELSE <<crdDescriptions[1]>>

SelectCRDByGVK(csvs, ns, gvk, fail) ==
    LET ownedCRDs == ListCSVOwnedCRDs(csvs, ns, fail)
        Keeps(crd) == crdMatches(crd, gvk) IN
    IF ownedCRDs.err # NilError THEN [crd |-> <<>>, err |-> ownedCRDs.err]
    ELSE [crd |-> PickCRD(SelectSeq(loopCRDDescritions(ownedCRDs.crds), Keeps)),
          err |-> NilError]

\* ------------------------------------------------------------ extractGVKs

extractGVKs(crdDescriptions) ==
    LET crds == loopCRDDescritions(crdDescriptions) IN
    [gvks |-> [i \in 1..Len(crds) |->
                  GroupVersionKind(ParseResourceArg(crds[i].Name).Group,
                                   crds[i].Version, crds[i].Kind)],
     err |-> NilError]

\* ----------------------------------------- ListGVKsFromCSVNamespacedName

\* resourceClient.Get: the CSV of that name in that namespace, the store's
\* error, or NotFound.
GetCSV(csvs, namespacedName, fail) ==
    LET found == { i \in 1..Len(csvs) :
                     /\ csvs[i].metadata.namespace = namespacedName.Namespace
                     /\ csvs[i].metadata.name = namespacedName.Name } IN
    IF fail THEN [u |-> <<>>, err |-> StoreError("ServerTimeout")]
    ELSE IF found = {} THEN [u |-> <<>>, err |-> StoreError("NotFound")]
    ELSE [u |-> <<csvs[CHOOSE i \in found : TRUE]>>, err |-> NilError]

\* The list given to extractGVKs holds the CSV object itself.
ListGVKsFromCSVNamespacedName(csvs, namespacedName, fail) ==
    LET got == GetCSV(csvs, namespacedName, fail) IN
    IF got.err # NilError THEN [gvks |-> <<>>, err |-> got.err]
    ELSE extractGVKs(<<got.u[1]>>)

\* ------------------------------------------------- the CSVs of the store

StrClusterServiceVersion ==
    <<"C","l","u","s","t","e","r","S","e","r","v","i","c","e",
      "V","e","r","s","i","o","n">>

\* A CRD description as a CSV holds it; its name is <plural>.<group>.
OwnedCRD(name, version, kind, displayName) ==
    [name |-> name, version |-> version, kind |-> kind, displayName |-> displayName]

\* The descriptions CSVs own here: one with a version in upper case and a
\* group of two words, one with no version and a name without group.
OwnedCRDs ==
    { OwnedCRD(<<"d","b","s",".","g",".","i","o">>, <<"V","1">>, <<"D","b">>, "Database"),
      OwnedCRD(<<"d","b","s">>, <<>>, <<"d","b">>, "Any database") }

OwnedLists == UNION { [1..n -> OwnedCRDs] : n \in 0..MaxOwned }

\* The spec of a CSV: without customresourcedefinitions, with it but
\* without owned, or with a list of owned descriptions.
CSVSpecs ==
    { [displayName |-> "operator"],
      [customresourcedefinitions |-> [required |-> <<>>]] }
    \cup { [customresourcedefinitions |-> [owned |-> l]] : l \in OwnedLists }

ClusterServiceVersion(name, ns, spec) ==
    [apiVersion |-> "operators.coreos.com/v1alpha1",
     kind       |-> StrClusterServiceVersion,
     metadata   |-> [name |-> name, namespace |-> ns],
     spec       |-> spec]

OLMNamespaces == {"binder", "other"}

\* The CSVs of the store in the order the store lists them (by name), each
\* with its namespace and its spec.
CSVStore(ns, sp) ==
    [i \in DOMAIN sp |-> ClusterServiceVersion(i, ns[i], sp[i])]

\* The group/version/kind asked of SelectCRDByGVK.
GVKInputs ==
    { GroupVersionKind(g, v, k) :
        g \in { <<"g",".","i","o">>, <<"z">> },
        v \in { <<"v","1">>, <<"v","2">> },
        k \in { <<"D","B">>, <<"k","v">> } }

\* NewOLM(client, ns): the OLM of namespace "binder" over a store of CSVs.
InitOLM ==
    /\ InitQuiet
    /\ \E n \in 0..MaxCSVs :
          \E ns \in [1..n -> OLMNamespaces], sp \in [1..n -> CSVSpecs] :
             fnIn = [csvs |-> CSVStore(ns, sp), ns |-> "binder"]

ApplySelectCRDByGVK ==
    /\ fnOut = <<>>
    /\ \E gvk \in GVKInputs, fail \in BOOLEAN :
          fnOut' = <<[op |-> "SelectCRDByGVK", gvk |-> gvk, fail |-> fail,
                      out |-> SelectCRDByGVK(fnIn.csvs, fnIn.ns, gvk, fail)]>>
    /\ UNCHANGED <<store, store0, sbr, pc, objList, idx, result, pre, listCalls,
                   updCalls, inspected, failedCall, failures, fnIn>>

ApplyListCSVOwnedCRDs ==
    /\ fnOut = <<>>
    /\ \E fail \in BOOLEAN :
          fnOut' = <<[op |-> "ListCSVOwnedCRDs", fail |-> fail,
                      out |-> ListCSVOwnedCRDs(fnIn.csvs, fnIn.ns, fail)]>>
    /\ UNCHANGED <<store, store0, sbr, pc, objList, idx, result, pre, listCalls,
                   updCalls, inspected, failedCall, failures, fnIn>>

ApplyListGVKsFromCSVNamespacedName ==
    /\ fnOut = <<>>
    /\ \E ns \in OLMNamespaces, name \in 1..MaxCSVs, fail \in BOOLEAN :
          LET namespacedName == [Namespace |-> ns, Name |-> name] IN
          fnOut' = <<[op |-> "ListGVKsFromCSVNamespacedName",
                      namespacedName |-> namespacedName, fail |-> fail,
                      out |-> ListGVKsFromCSVNamespacedName(fnIn.csvs, namespacedName, fail)]>>
    /\ UNCHANGED <<store, store0, sbr, pc, objList, idx, result, pre, listCalls,
                   updCalls, inspected, failedCall, failures, fnIn>>

NextOLM ==
    \/ ApplySelectCRDByGVK
    \/ ApplyListCSVOwnedCRDs
    \/ ApplyListGVKsFromCSVNamespacedName

SpecOLM == InitOLM /\ [][NextOLM]_vars

\* --------------------------------------- vocabulary of the OLM properties

\* The call made on the OLM, once it has returned.
Called(op) == fnOut # <<>> /\ fnOut[1].op = op

\* Whether the CSV holds spec.customresourcedefinitions.owned.
HasOwned(csv) ==
    /\ "customresourcedefinitions" \in DOMAIN csv.spec
    /\ "owned" \in DOMAIN csv.spec.customresourcedefinitions

OwnedAt(csv) == IF HasOwned(csv) THEN csv.spec.customresourcedefinitions.owned ELSE <<>>

\* The places <<i, j>> of the owned descriptions of the namespace: the j-th
\* description of the i-th CSV of the store.
OwnedPlaces(csvs, ns) ==
    { <<i, j>> \in (1..Len(csvs)) \X (1..MaxOwned) :
         csvs[i].metadata.namespace = ns /\ j <= Len(OwnedAt(csvs[i])) }

\* Listing order: by CSV, then by place in the owned list.
PlaceBefore(p, q) == p[1] < q[1] \/ (p[1] = q[1] /\ p[2] < q[2])

\* The description as the caller receives it.
Described(d) ==
    [Name |-> d.name, Version |-> d.version, Kind |-> d.kind,
     DisplayName |-> d.displayName]

\* The description is one the request asks for: same kind when case is
\* ignored and, if it declares a version, same version when case is ignored.
Asked(d, gvk) ==
    /\ EqualFold(d.kind, gvk.Kind)
    /\ d.version = <<>> \/ EqualFold(d.version, gvk.Version)

AskedPlaces(csvs, ns, gvk) ==
    { p \in OwnedPlaces(csvs, ns) : Asked(OwnedAt(csvs[p[1]])[p[2]], gvk) }

C12_FirstMatchWins ==
    (Called("SelectCRDByGVK") /\ ~fnOut[1].fail) =>
       LET call == fnOut[1]
           asked == AskedPlaces(fnIn.csvs, fnIn.ns, call.gvk) IN
       /\ asked = {} => call.out = [crd |-> <<>>, err |-> NilError]
       /\ asked # {} =>
             LET first == CHOOSE p \in asked : \A q \in asked \ {p} : PlaceBefore(p, q) IN
             call.out = [crd |-> <<Described(OwnedAt(fnIn.csvs[first[1]])[first[2]])>>,
                         err |-> NilError]

\* C12 witness: two CSVs of the namespace own matching descriptions, the
\* second CSV's differing from the first's, and the first's is returned.
C12_Witness ==
    /\ Called("SelectCRDByGVK") /\ ~fnOut[1].fail
    /\ \E p, q \in AskedPlaces(fnIn.csvs, fnIn.ns, fnOut[1].gvk) :
          /\ p[1] < q[1]
          /\ OwnedAt(fnIn.csvs[p[1]])[p[2]] # OwnedAt(fnIn.csvs[q[1]])[q[2]]
          /\ fnOut[1].out.crd = <<Described(OwnedAt(fnIn.csvs[p[1]])[p[2]])>>

\* The CSV of that name in that namespace (one at most: names are places).
NamedCSV(csvs, namespacedName) ==
    csvs[CHOOSE i \in 1..Len(csvs) :
            /\ csvs[i].metadata.namespace = namespacedName.Namespace
            /\ csvs[i].metadata.name = namespacedName.Name]

\* C13 as stated: when the CSV is fetched, ListGVKsFromCSVNamespacedName
\* returns one group/version/kind per description the CSV owns, in order:
\* the group parsed from the description's name as <plural>.<group>, the
\* version and kind of the description; k descriptions give a list of
\* length k, none gives the empty list.
C13_Original ==
    (Called("ListGVKsFromCSVNamespacedName") /\ fnOut[1].out.err = NilError) =>
       LET owned == OwnedAt(NamedCSV(fnIn.csvs, fnOut[1].namespacedName)) IN
       fnOut[1].out.gvks =
          [j \in 1..Len(owned) |->
              GroupVersionKind(ParseGroupResource(owned[j].name).Group,
                               owned[j].version, owned[j].kind)]

\* How many descriptions the first n CSVs of the store own in the namespace.
RECURSIVE OwnedCount(_, _, _)
OwnedCount(csvs, ns, n) ==
    IF n = 0 THEN 0
    ELSE OwnedCount(csvs, ns, n - 1)
         + (IF csvs[n].metadata.namespace = ns THEN Len(OwnedAt(csvs[n])) ELSE 0)

\* C14: ListCSVOwnedCRDs returns the owned lists of the CSVs of the
\* namespace one after the other in listing order: as many descriptions as
\* the lists hold together, each at its place, a CSV without the owned path
\* adding none and raising no error; when the list call fails it returns
\* the store's error and no description.
C14_OwnedConcatenated ==
    Called("ListCSVOwnedCRDs") =>
       LET call == fnOut[1]
           csvs == fnIn.csvs
           ns   == fnIn.ns IN
       /\ call.fail => call.out = [crds |-> <<>>, err |-> StoreError("ServerTimeout")]
       /\ ~call.fail =>
             /\ call.out.err = NilError
             /\ Len(call.out.crds) = OwnedCount(csvs, ns, Len(csvs))
             /\ \A p \in OwnedPlaces(csvs, ns) :
                   call.out.crds[OwnedCount(csvs, ns, p[1] - 1) + p[2]]
                      = OwnedAt(csvs[p[1]])[p[2]]

\* C14 witness: the first CSV of the namespace lacks the owned path, the
\* second owns two different descriptions, and both are returned in order.
C14_Witness ==
    /\ Called("ListCSVOwnedCRDs") /\ ~fnOut[1].fail
    /\ Len(fnIn.csvs) = 2
    /\ \A i \in 1..2 : fnIn.csvs[i].metadata.namespace = fnIn.ns
    /\ ~HasOwned(fnIn.csvs[1])
    /\ Len(OwnedAt(fnIn.csvs[2])) = 2
    /\ OwnedAt(fnIn.csvs[2])[1] # OwnedAt(fnIn.csvs[2])[2]
    /\ fnOut[1].out = [crds |-> OwnedAt(fnIn.csvs[2]), err |-> NilError]

\* ===================================================================
\* Two binders over one store
\* ===================================================================

\* The binder took a turn of update's loop in this step.
TookTurn(b) == pc[b] = "update" /\ inspected'[b] # inspected[b]

\* The object the binder is about to update was written by someone else
\* since the binder listed it.
HoldsStale(b) ==
    LET obj == objList[b][idx[b]] IN
    store[obj.metadata.name].metadata.resourceVersion # obj.metadata.resourceVersion

\* The first list is the beginning of the second.
IsPrefix(s, t) == Len(s) <= Len(t) /\ SubSeq(t, 1, Len(s)) = s

\* No container of the store loses an envFrom entry in this step.
KeepsEntries ==
    \A n \in 1..MaxObjects :
       /\ Len(ContainersOf(store'[n])) = Len(ContainersOf(store[n]))
       /\ \A c \in 1..Len(ContainersOf(store[n])) :
             IsPrefix(EnvFromOf(ContainersOf(store[n])[c]),
                      EnvFromOf(ContainersOf(store'[n])[c]))

\* C15: two binders interleaving on a store that rejects stale updates:
\* no step takes an envFrom entry out of the store; a binder whose object
\* went stale changes nothing and its Bind ends with an error (the store's
\* conflict, when the update is reached); and once both binders, for
\* different secrets, have returned nil, every container of an object both
\* select names each of the two secrets exactly once (the containers
\* holding no secret name twice at the start).
C15_StaleUpdateRejected ==
    /\ [][KeepsEntries]_vars
    /\ [][\A b \in Binders :
            (TookTurn(b) /\ HoldsStale(b)) =>
               /\ store' = store
               /\ pc'[b] = "idle"
               /\ result'[b].status \in {"error", "panic"}
               /\ (HasContainers(objList[b][idx[b]]) /\ result'[b].status = "error")
                     => /\ result'[b].type \in {"Conflict"} \cup StoreErrorTypes
                        /\ failedCall'[b] = FailedCall("Update", idx[b], result'[b])]_vars
    /\ [](( /\ Succeeded(1) /\ Succeeded(2)
            /\ sbr[1].Name # sbr[2].Name
            /\ UniqueSecretNames(store0) ) =>
             \A n \in SelectedNames(store, sbr[1]) \cap SelectedNames(store, sbr[2]) :
                \A c \in 1..Len(ContainersOf(store[n])) :
                   /\ SecretCount(ContainersOf(store[n])[c], sbr[1].Name) = 1
                   /\ SecretCount(ContainersOf(store[n])[c], sbr[2].Name) = 1)

\* C15 witness: binder 2's Bind has ended with the store's conflict at an
\* object both binders select, binder 1 having persisted its secret there
\* after binder 2 listed it; the object holds binder 1's secret and not
\* binder 2's.
C15_Witness ==
    /\ pc[2] = "idle"
    /\ result[2] = StoreError("Conflict")
    /\ sbr[1].Name # sbr[2].Name
    /\ LET n == objList[2][failedCall[2].n].metadata.name IN
       /\ n \in SelectedNames(store, sbr[1])
       /\ objList[2][failedCall[2].n] = store0[n]
       /\ Len(ContainersOf(store[n])) > 0
       /\ \A c \in 1..Len(ContainersOf(store[n])) :
             /\ SecretCount(ContainersOf(store0[n])[c], sbr[1].Name) = 0
             /\ SecretCount(ContainersOf(store[n])[c], sbr[1].Name) = 1
             /\ SecretCount(ContainersOf(store[n])[c], sbr[2].Name) = 0

\* ===================================================================
\* envFrom entries that are no secret reference
\* ===================================================================

\* C16 as stated: given a list holding an entry that is no secret reference
\* (a config-map source, its SecretRef nil), appendEnvFrom returns: every
\* entry given is kept at its place, the list is returned as it is when an
\* entry names the secret, and followed by the secret's entry otherwise.
C16_Original ==
    (Len(fnOut) >= 1 /\ \E i \in 1..Len(fnIn.envList) : Len(fnIn.envList[i].SecretRef) = 0) =>
       LET L == fnIn.envList
           R == fnOut[1].list
           s == fnIn.secret IN
       /\ ~fnOut[1].panic
       /\ IsPrefix(L, R)
       /\ IF \E i \in 1..Len(L) : RefersTo(L[i], s)
          THEN R = L
          ELSE R = Append(L, SecretEnvFrom(s))

====
